---- MODULE Spec2Model ----
(***************************************************************************)
(* Devign driver (main.py): command-line configuration, dataset loading,   *)
(* the feature-size assertion, model construction, the call of the         *)
(* training loop and the post-training embedding export save_after_ggnn.   *)
(*                                                                         *)
(* main.py is the only file of the repository at hand.  trainer.train,     *)
(* data_loader.dataset.DataSet and modules.model are imported by it; their *)
(* behaviour is taken from the design document (sections 3, 4.3, 4.6, 5)   *)
(* and the definitions concerned say so.                                   *)
(***************************************************************************)
EXTENDS Integers, Sequences, FiniteSets, TLC

VARIABLES
    pc,              \* position of the driver in __main__
    argv,            \* the command-line values as given (never modified)
    processed_at_start, \* history: processed.bin existed when the process started
    args,            \* argparse namespace (the fields the driver reads)
    CUDA,            \* module-level CUDA flag (line 17)
    json_src,        \* contents of the three *_GGNNinput.json files
    stderr,          \* number of warnings printed to stderr
    files,           \* file system: path -> contents
    write_log,       \* paths in the order they were opened for writing
    dataset,         \* the in-memory DataSet ("none" before it is built)
    models,          \* the model objects constructed so far, in order
    model_device,    \* device of the model parameters
    params,          \* model parameters, as the number of optimizer steps applied
    train_state,     \* "idle" or a state of the training loop's state machine
    step_count,      \* optimization steps executed by train
    patience_counter,\* consecutive validation checks without improvement
    best_metric,     \* best validation metric seen by train
    checks,          \* history: validation checks performed
    hist_max,        \* history: largest validation metric observed
    best_check,      \* history: index of the check that observed hist_max first
    improvements,    \* history: number of checks that raised hist_max
    batch_iter,      \* per split: the iterator position, or "uninit"
    inits,           \* history: per split, initialize_*_batch calls made
    exp,             \* locals of the running save_after_ggnn call
    fetched,         \* history: per split, the batches get_fn returned to the export
    placement        \* devices of graph/targets/parameters at the last export forward pass

vars == <<pc, argv, processed_at_start, args, CUDA, json_src, stderr, files, write_log, dataset, models,
          model_device, params, train_state, step_count, patience_counter,
          best_metric, checks, hist_max, best_check, improvements, batch_iter,
          inits, exp, fetched, placement>>

(***************************************************************************)
(* Bounds of the model.                                                    *)
(***************************************************************************)
\* --feature_size, --graph_embed_size and the dataset's feature width range over 1..MaxDim
MaxDim == 2
\* metrics reported by a validation check range over 0..MaxMetric
MaxMetric == 2
\* the driver passes dev_every=128; the model validates every DevEvery steps
DevEvery == 2
\* the driver passes max_steps=1000000 = 7812*128 + 64; the model allows MaxChecks
\* validation checks and half a validation period after the last one
MaxChecks == 7
\* the test split holds up to MaxExamples+1 examples
MaxExamples == 2
\* --batch_size (default 128) is BatchSize in every run of the model
BatchSize == 2

Sizes == 1..MaxDim
Metrics == 0..MaxMetric
Splits == {"train", "valid", "test"}
ModelTypes == {"devign", "ggnn"}
Halted == {"early-stopped", "converged-by-max-steps"}

(***************************************************************************)
(* Helpers on sequences and files.                                         *)
(***************************************************************************)
Max(a, b) == IF a >= b THEN a ELSE b
Min(a, b) == IF a <= b THEN a ELSE b

RECURSIVE Flatten(_)
Flatten(ss) == IF ss = <<>> THEN <<>> ELSE Head(ss) \o Flatten(Tail(ss))

RECURSIVE SumLen(_)
SumLen(ss) == IF ss = <<>> THEN 0 ELSE Len(Head(ss)) + SumLen(Tail(ss))

\* Python's zip: pairs up to the shorter of the two lists
Zip(xs, ys) == [i \in 1..Min(Len(xs), Len(ys)) |-> <<xs[i], ys[i]>>]

\* the examples of a split cut into batches of at most bs examples, in order
Chunk(xs, bs) ==
    [b \in 1..((Len(xs) + bs - 1) \div bs) |->
        SubSeq(xs, (b - 1) * bs + 1, Min(b * bs, Len(xs)))]

Perms(n) == {p \in [1..n -> 1..n] : \A i, j \in 1..n : p[i] = p[j] => i = j}

Count(log, path) == Cardinality({i \in 1..Len(log) : log[i] = path})

\* open(path, 'w') ... write: the file is created or replaced
WriteFile(fsys, path, content) ==
    [p \in DOMAIN fsys \cup {path} |-> IF p = path THEN content ELSE fsys[p]]

NoFiles == [p \in {} |-> 0]

(***************************************************************************)
(* Input files and the DataSet built from them.                            *)
(***************************************************************************)
ProcessedPath == "processed.bin"
SavePath == "models/GGNNSumModel"
ExportPath(name) ==
    CASE name = "test"  -> "after_ggnn/test_GGNNinput_graph.json"
      [] name = "valid" -> "after_ggnn/valid_GGNNinput_graph.json"
      [] name = "train" -> "after_ggnn/train_GGNNinput_graph.json"
ExportPaths == {ExportPath(s) : s \in Splits}

\* one graph example of the JSON input: its node feature width and its label
Example(id, width) == [id |-> id, width |-> width, label |-> id % 2]

\* the three JSON files of an input directory holding n+1 training, n-1
\* validation and n test examples, every node feature vector width wide
JsonFiles(width, n) ==
    [train |-> [i \in 1..(n + 1) |-> Example(10 + i, width)],
     valid |-> [i \in 1..(n - 1) |-> Example(20 + i, width)],
     test  |-> [i \in 1..n       |-> Example(31 + i, width)]]

JsonInputs == {JsonFiles(w, n) : w \in Sizes, n \in 1..MaxExamples}

IdentityOrder(n) == [i \in 1..n |-> i]

\* DataSet(train_src, valid_src, test_src, batch_size, ...): the examples of
\* each split in batches of batch_size, and the node feature width found
DataSet(json, batch_size) ==
    [built |-> TRUE,
     feature_size |-> json.train[1].width,
     batches |-> [s \in Splits |-> Chunk(json[s], batch_size)]]

NoDataset == [built |-> FALSE]

\* a processed.bin left by an earlier run on other input files
StaleDataset == DataSet(JsonFiles(MaxDim, 1), 1)

FreshIter(ds, s) == [order |-> IdentityOrder(Len(ds.batches[s])), pos |-> 0]

\* dataset.initialize_<split>_batch(): restarts the split's iteration (the
\* training split in a new order) and returns its number of batches
InitializeBatch(ds, s) ==
    {[iter |-> [order |-> o, pos |-> 0], count |-> Len(ds.batches[s])] :
        o \in IF s = "train" THEN Perms(Len(ds.batches[s]))
                            ELSE {IdentityOrder(Len(ds.batches[s]))}}

\* dataset.get_next_<split>_batch(): the batch at the iterator, which advances
\* and starts over after the last batch
GetNextBatch(ds, s, iter) ==
    [batch |-> ds.batches[s][iter.order[iter.pos + 1]],
     iter  |-> [iter EXCEPT !.pos = (iter.pos + 1) % Len(iter.order)]]

(***************************************************************************)
(* The driver's constants and pure steps.                                  *)
(***************************************************************************)
\* max_patience of the train call that is commented out (line 111)
max_patience_disabled == 100
\* max_patience of the train call (line 114)
max_patience == 5
\* dev_every of the train call (line 112), scaled
dev_every == DevEvery
\* max_steps of the train call (line 112), scaled: like 1000000 = 7812*128 + 64
\* it is a whole number of validation periods plus half a period
max_steps == MaxChecks * dev_every + dev_every \div 2

\* the keyword arguments of train(...) that drive the loop (lines 112-114)
TrainCall ==
    [max_steps |-> max_steps, dev_every |-> dev_every,
     max_patience |-> max_patience, save_path |-> SavePath]

\* lines 70-73: the namespace after the embedding size correction
CorrectEmbedSizeSwapped(a) ==
    IF a.feature_size > a.graph_embed_size
    THEN [a EXCEPT !.feature_size = a.graph_embed_size]
    ELSE a
CorrectEmbedSize(a) ==
    IF a.feature_size > a.graph_embed_size
    THEN [a EXCEPT !.graph_embed_size = a.feature_size]
    ELSE a

\* line 80: the condition under which processed.bin would be unpickled
UseProcessedIfExists(fsys) == ProcessedPath \in DOMAIN fsys
UseProcessed(fsys) == FALSE /\ ProcessedPath \in DOMAIN fsys

\* line 93: the asserted condition (the interpreter runs with assertions on)
FeatureSizeAgreesUnchecked(a, ds) == TRUE
FeatureSizeAgrees(a, ds) == a.feature_size = ds.feature_size

\* lines 96-101: the model constructed
SelectModelSwapped(a, ds) ==
    [class |-> IF a.model_type = "ggnn" THEN "DevignModel" ELSE "GGNNSum",
     input_dim |-> ds.feature_size, output_dim |-> a.graph_embed_size]
SelectModel(a, ds) ==
    [class |-> IF a.model_type = "ggnn" THEN "GGNNSum" ELSE "DevignModel",
     input_dim |-> ds.feature_size, output_dim |-> a.graph_embed_size]

\* the locals of save_after_ggnn that reach its output (all_predictions,
\* all_targets and all_loss are filled and never read), and the number of the call
NoExport == [call |-> 0, name |-> "none", num_batches |-> 0, l |-> 0, final |-> <<>>]
NoPlacement == [graph |-> "none", targets |-> "none", params |-> "none", cuda |-> FALSE]

(***************************************************************************)
(* Initial state: the process after parse_args (line 68).                  *)
(***************************************************************************)
Init ==
    /\ pc = "parsed"
    /\ argv \in [model_type : ModelTypes, feature_size : Sizes,
                 graph_embed_size : Sizes, batch_size : {BatchSize},
                 save_after_ggnn : BOOLEAN]
    /\ args = argv
    /\ CUDA \in BOOLEAN
    /\ json_src \in JsonInputs
    /\ stderr = 0
    /\ files \in {NoFiles, WriteFile(NoFiles, ProcessedPath, StaleDataset)}
    /\ processed_at_start = (ProcessedPath \in DOMAIN files)
    /\ write_log = <<>>
    /\ dataset = NoDataset
    /\ models = <<>>
    /\ model_device = "none"
    /\ params = 0
    /\ train_state = "idle"
    /\ step_count = 0
    /\ patience_counter = 0
    /\ best_metric = 0
    /\ checks = 0
    /\ hist_max = 0
    /\ best_check = 0
    /\ improvements = 0
    /\ batch_iter = [s \in Splits |-> [order |-> <<>>, pos |-> 0]]
    /\ inits = [s \in Splits |-> 0]
    /\ exp = NoExport
    /\ fetched = [s \in Splits |-> <<>>]
    /\ placement = NoPlacement

trainVars == <<params, train_state, step_count, patience_counter, best_metric,
               checks, hist_max, best_check, improvements>>
exportVars == <<exp, fetched, placement, inits>>

\* lines 70-73
Configure ==
    /\ pc = "parsed"
    /\ args' = CorrectEmbedSize(args)
    /\ stderr' = IF args.feature_size > args.graph_embed_size THEN stderr + 1 ELSE stderr
    /\ pc' = "load"
    /\ UNCHANGED <<argv, processed_at_start, CUDA, json_src, files, write_log, dataset, models,
                   model_device, batch_iter>>
    /\ UNCHANGED trainVars
    /\ UNCHANGED exportVars

\* lines 79-92
LoadDataset ==
    /\ pc = "load"
    /\ IF UseProcessed(files)
       THEN /\ dataset' = files[ProcessedPath]
            /\ UNCHANGED <<files, write_log>>
       ELSE /\ dataset' = DataSet(json_src, args.batch_size)
            /\ files' = WriteFile(files, ProcessedPath, dataset')
            /\ write_log' = Append(write_log, ProcessedPath)
    /\ batch_iter' = [s \in Splits |-> FreshIter(dataset', s)]
    /\ pc' = "assert"
    /\ UNCHANGED <<argv, processed_at_start, args, CUDA, json_src, stderr, models, model_device>>
    /\ UNCHANGED trainVars
    /\ UNCHANGED exportVars

\* lines 93-95
CheckFeatureSize ==
    /\ pc = "assert"
    /\ pc' = IF FeatureSizeAgrees(args, dataset) THEN "construct" ELSE "aborted"
    /\ UNCHANGED <<argv, processed_at_start, args, CUDA, json_src, stderr, files, write_log, dataset,
                   models, model_device, batch_iter>>
    /\ UNCHANGED trainVars
    /\ UNCHANGED exportVars

\* lines 96-101
ConstructModel ==
    /\ pc = "construct"
    /\ models' = Append(models, SelectModel(args, dataset))
    /\ model_device' = "cpu"
    /\ pc' = "place"
    /\ UNCHANGED <<argv, processed_at_start, args, CUDA, json_src, stderr, files, write_log, dataset,
                   batch_iter>>
    /\ UNCHANGED trainVars
    /\ UNCHANGED exportVars

\* lines 105-108: where the parameters live once the optimizer is built
ModelPlacement(cuda, dev) == IF cuda THEN "cuda:0" ELSE dev

PlaceModel ==
    /\ pc = "place"
    /\ model_device' = ModelPlacement(CUDA, model_device)
    /\ pc' = "train"
    /\ train_state' = IF TrainCall.max_steps > 0 THEN "training"
                                                ELSE "converged-by-max-steps"
    /\ UNCHANGED <<argv, processed_at_start, args, CUDA, json_src, stderr, files, write_log, dataset,
                   models, batch_iter>>
    /\ UNCHANGED <<params, step_count, patience_counter, best_metric, checks,
                   hist_max, best_check, improvements>>
    /\ UNCHANGED exportVars

(***************************************************************************)
(* trainer.train (design document, section 4.6), under the arguments of    *)
(* the call at lines 112-114.                                              *)
(***************************************************************************)
\* a validation metric is a new best
ImprovesOrTies(m, best) == m >= best
Improves(m, best) == m > best

\* the loop's state after the n-th optimization step
AfterStep(call, n) ==
    IF n % call.dev_every = 0 THEN "validating"
    ELSE IF n >= call.max_steps THEN "converged-by-max-steps"
    ELSE "training"

\* the loop's state after a validation check
AfterCheckNoStop(call, patience, n) ==
    IF n >= call.max_steps THEN "converged-by-max-steps" ELSE "training"
AfterCheck(call, patience, n) ==
    IF patience >= call.max_patience THEN "early-stopped"
    ELSE IF n >= call.max_steps THEN "converged-by-max-steps"
    ELSE "training"

\* the checkpoint written on a new best
Checkpoint(improved, fsys, path, p) ==
    IF improved THEN WriteFile(fsys, path, [params |-> p]) ELSE fsys

\* one optimization step on the next training batch
TrainStep ==
    /\ pc = "train"
    /\ train_state = "training"
    /\ step_count < TrainCall.max_steps
    /\ step_count' = step_count + 1
    /\ params' = params + 1
    /\ batch_iter' = [batch_iter EXCEPT
                         !["train"] = GetNextBatch(dataset, "train", @).iter]
    /\ train_state' = AfterStep(TrainCall, step_count')
    /\ UNCHANGED <<pc, argv, processed_at_start, args, CUDA, json_src, stderr, files, write_log, dataset,
                   models, model_device>>
    /\ UNCHANGED <<patience_counter, best_metric, checks, hist_max, best_check,
                   improvements>>
    /\ UNCHANGED exportVars

\* one validation check, reporting metric m
Validate ==
    /\ pc = "train"
    /\ train_state = "validating"
    /\ \E m \in Metrics :
        LET improved == Improves(m, best_metric)
            patience == IF improved THEN 0 ELSE patience_counter + 1
        IN  /\ best_metric' = IF improved THEN m ELSE best_metric
            /\ patience_counter' = patience
            /\ files' = Checkpoint(improved, files, TrainCall.save_path, params)
            /\ write_log' = IF improved THEN Append(write_log, TrainCall.save_path)
                                         ELSE write_log
            /\ train_state' = AfterCheck(TrainCall, patience, step_count)
            /\ checks' = checks + 1
            /\ hist_max' = Max(hist_max, m)
            /\ best_check' = IF m > hist_max THEN checks + 1 ELSE best_check
            /\ improvements' = IF m > hist_max THEN improvements + 1 ELSE improvements
    /\ UNCHANGED <<pc, argv, processed_at_start, args, CUDA, json_src, stderr, dataset, models,
                   model_device, batch_iter, params, step_count>>
    /\ UNCHANGED exportVars

\* train returns; line 116
TrainReturn ==
    /\ pc = "train"
    /\ train_state \in Halted
    /\ pc' = IF args.save_after_ggnn THEN "export" ELSE "done"
    /\ UNCHANGED <<argv, processed_at_start, args, CUDA, json_src, stderr, files, write_log, dataset,
                   models, model_device, batch_iter>>
    /\ UNCHANGED trainVars
    /\ UNCHANGED exportVars

(***************************************************************************)
(* save_after_ggnn (lines 20-49) and its three calls (lines 120-122).      *)
(***************************************************************************)
ExportOrder == <<"test", "valid", "train">>

\* the label tensor of a batch: the labels as floats, in tenths
Targets(batch) == [i \in 1..Len(batch) |-> batch[i].label * 10]

\* int(x) of a float x given in tenths: truncation towards zero
IntOf(x) == IF x >= 0 THEN x \div 10 ELSE -((-x) \div 10)

\* model.get_graph_embeddings(graph).tolist(): one embedding of width
\* output_dim per graph of the batch, in batch order (section 4.3)
GraphEmbeddings(m, batch) ==
    [i \in 1..Len(batch) |-> [k \in 1..m.output_dim |-> batch[i].id]]

\* lines 28-34: the devices of graph and targets at the forward pass, given
\* the devices b they were returned on, and the device of the parameters
BatchPlacementGraphOnly(cuda, b, dev) ==
    IF cuda THEN [graph |-> "cuda:0", targets |-> b.targets, params |-> dev, cuda |-> TRUE]
            ELSE [graph |-> b.graph, targets |-> b.targets, params |-> dev, cuda |-> FALSE]
BatchPlacement(cuda, b, dev) ==
    IF cuda THEN [graph |-> "cuda:0", targets |-> "cuda:0", params |-> dev, cuda |-> TRUE]
            ELSE [graph |-> b.graph, targets |-> b.targets, params |-> dev, cuda |-> FALSE]

\* a forward pass needs graph, targets and parameters on one device (section 5)
SameDevice(pl) == pl.graph = pl.targets /\ pl.graph = pl.params

\* line 43
ExtendFinalOverwrite(final, output, targets) ==
    Zip(output, [i \in 1..Len(targets) |-> IntOf(targets[i])])
ExtendFinal(final, output, targets) ==
    final \o Zip(output, [i \in 1..Len(targets) |-> IntOf(targets[i])])

\* line 45
ToRecords(final) ==
    [i \in 1..Len(final) |-> [graph_feature |-> final[i][1], target |-> final[i][2]]]

\* the split exported by the k-th call and what its initialize call yields
ExportArgsNoInit(ds, iters, k) ==
    {[name |-> ExportOrder[k], iter |-> iters[ExportOrder[k]],
      count |-> Len(ds.batches[ExportOrder[k]])]}
ExportArgs(ds, iters, k) ==
    {[name |-> ExportOrder[k], iter |-> r.iter, count |-> r.count] :
        r \in InitializeBatch(ds, ExportOrder[k])}

\* lines 120-122: the arguments are evaluated, save_after_ggnn is entered (lines 21-25)
ExportCall ==
    /\ pc = "export"
    /\ exp.call < Len(ExportOrder)
    /\ \E a \in ExportArgs(dataset, batch_iter, exp.call + 1) :
        /\ batch_iter' = [batch_iter EXCEPT ![a.name] = a.iter]
        /\ inits' = [inits EXCEPT ![a.name] = @ + 1]
        /\ exp' = [call |-> exp.call + 1, name |-> a.name, num_batches |-> a.count,
                   l |-> 0, final |-> <<>>]
        /\ fetched' = [fetched EXCEPT ![a.name] = <<>>]
    /\ pc' = "save_after_ggnn"
    /\ UNCHANGED <<argv, processed_at_start, args, CUDA, json_src, stderr, files, write_log, dataset,
                   models, model_device, placement>>
    /\ UNCHANGED trainVars

\* lines 26-43: one iteration of the loop
ExportBatch ==
    /\ pc = "save_after_ggnn"
    /\ exp.l < exp.num_batches
    /\ LET got == GetNextBatch(dataset, exp.name, batch_iter[exp.name])
           pl == BatchPlacement(CUDA, [graph |-> "cpu", targets |-> "cpu"], model_device)
           targets == Targets(got.batch)
           output == GraphEmbeddings(models[Len(models)], got.batch)
       IN  /\ batch_iter' = [batch_iter EXCEPT ![exp.name] = got.iter]
           /\ fetched' = [fetched EXCEPT ![exp.name] = Append(@, got.batch)]
           /\ placement' = pl
           /\ IF SameDevice(pl)
              THEN /\ exp' = [exp EXCEPT !.l = @ + 1,
                                         !.final = ExtendFinal(@, output, targets)]
                   /\ pc' = pc
              ELSE /\ exp' = exp
                   /\ pc' = "DeviceMismatch"
    /\ UNCHANGED <<argv, processed_at_start, args, CUDA, json_src, stderr, files, write_log, dataset,
                   models, model_device, inits>>
    /\ UNCHANGED trainVars

\* lines 45-49: after the loop
ExportWrite ==
    /\ pc = "save_after_ggnn"
    /\ exp.l >= exp.num_batches
    /\ files' = WriteFile(files, ExportPath(exp.name), ToRecords(exp.final))
    /\ write_log' = Append(write_log, ExportPath(exp.name))
    /\ pc' = IF exp.call < Len(ExportOrder) THEN "export" ELSE "done"
    /\ UNCHANGED <<argv, processed_at_start, args, CUDA, json_src, stderr, dataset, models,
                   model_device, batch_iter>>
    /\ UNCHANGED trainVars
    /\ UNCHANGED exportVars

Next ==
    \/ Configure
    \/ LoadDataset
    \/ CheckFeatureSize
    \/ ConstructModel
    \/ PlaceModel
    \/ TrainStep
    \/ Validate
    \/ TrainReturn
    \/ ExportCall
    \/ ExportBatch
    \/ ExportWrite

Spec == Init /\ [][Next]_vars

\* the process runs on: a step that can be taken is taken
FairSpec == Spec /\ WF_vars(Next)

(***************************************************************************)
(* Properties.                                                             *)
(***************************************************************************)
Device == IF CUDA THEN "cuda:0" ELSE "cpu"
ExportLog == SelectSeq(write_log, LAMBDA p : p \in ExportPaths)
ExportPlan == <<ExportPath("test"), ExportPath("valid"), ExportPath("train")>>

\* C1: with max_patience=5, a run whose validation metric improved at the 1st
\* check and at no later one has halted only as early-stopped, after exactly
\* 6 checks (5 past the best one), having executed the optimization steps up
\* to that check and none after it.
EarlyStopCount ==
    (train_state \in Halted /\ best_check = 1) =>
        /\ train_state = "early-stopped"
        /\ checks = 6
        /\ checks - best_check = 5
        /\ step_count = 6 * dev_every
        /\ params = step_count

EarlyStopCountWitness ==
    /\ pc = "done"
    /\ train_state = "early-stopped"
    /\ best_check = 1
    /\ checks = 6

\* C2: once the dataset is built, a feature size differing from the dataset's
\* leaves the run at the assertion or aborted by it, with no model, no
\* optimization step, no checkpoint and no export file; a run is aborted only
\* when the sizes differ.
FeatureMismatchFatal ==
    /\ (dataset.built /\ args.feature_size # dataset.feature_size) =>
            /\ pc \in {"assert", "aborted"}
            /\ models = <<>>
            /\ train_state = "idle"
            /\ step_count = 0
            /\ SavePath \notin DOMAIN files
            /\ ExportPaths \cap DOMAIN files = {}
    /\ pc = "aborted" => (dataset.built /\ args.feature_size # dataset.feature_size)

FeatureMismatchFatalWitness ==
    /\ pc = "aborted"
    /\ args.feature_size # dataset.feature_size
    /\ models = <<>>

\* C3: after the configuration step graph_embed_size is the larger of the two
\* command-line values, one warning is printed exactly when feature_size was
\* the larger, feature_size is as given, and the run has not aborted before
\* the dataset is built.
EmbedSizeCorrected ==
    /\ pc # "parsed" =>
            /\ args.graph_embed_size = Max(argv.feature_size, argv.graph_embed_size)
            /\ args.feature_size = argv.feature_size
            /\ stderr = IF argv.feature_size > argv.graph_embed_size THEN 1 ELSE 0
    /\ pc = "parsed" => (args = argv /\ stderr = 0)
    /\ pc = "aborted" => dataset.built

EmbedSizeCorrectedWitness ==
    /\ pc = "load"
    /\ argv.feature_size > argv.graph_embed_size
    /\ args.graph_embed_size = argv.feature_size
    /\ stderr = 1

\* C4: the save path is written once per validation check that sets a new best
\* and at no other check; once a best exists the file holds the parameters as
\* they were at the check that observed the best metric.
CheckpointIsBest ==
    /\ Count(write_log, SavePath) = improvements
    /\ best_check = 0 => SavePath \notin DOMAIN files
    /\ best_check >= 1 =>
            /\ SavePath \in DOMAIN files
            /\ files[SavePath] = [params |-> best_check * dev_every]
            /\ best_metric = hist_max

CheckpointIsBestWitness ==
    /\ improvements >= 2
    /\ checks > best_check
    /\ params > best_check * dev_every
    /\ SavePath \in DOMAIN files
    /\ files[SavePath] = [params |-> best_check * dev_every]

\* C5: the loop validates exactly after every dev_every-th step, executes at
\* most max_steps steps, halts as early-stopped only after max_patience checks
\* without improvement and as converged-by-max-steps only after max_steps
\* steps with fewer, does nothing once halted, and always halts.
TrainShape ==
    /\ step_count <= max_steps
    /\ train_state = "validating" =>
            (step_count % dev_every = 0 /\ checks = step_count \div dev_every - 1)
    /\ train_state \in {"training"} \cup Halted => checks = step_count \div dev_every
    /\ train_state = "early-stopped" => checks - best_check = max_patience
    /\ train_state = "converged-by-max-steps" =>
            (step_count = max_steps /\ checks - best_check < max_patience)
    /\ train_state = "idle" => step_count = 0

HaltedStays ==
    train_state \in Halted =>
        UNCHANGED <<train_state, step_count, params, checks, patience_counter, best_metric>>

TrainHalts ==
    /\ []TrainShape
    /\ [][HaltedStays]_vars
    /\ (train_state = "training") ~> (train_state \in Halted)

TrainHaltsWitness ==
    /\ pc = "done"
    /\ train_state = "converged-by-max-steps"
    /\ step_count = max_steps
    /\ improvements >= 1

\* the records save_after_ggnn owes for the batches get_fn returned
Owed(batches) ==
    LET es == Flatten(batches)
    IN  [i \in 1..Len(es) |->
            [graph_feature |-> [k \in 1..models[1].output_dim |-> es[i].id],
             target |-> es[i].label]]

\* C6: a written export file holds, in retrieval order, one record per example
\* of the batches get_fn returned, each pairing the example's embedding with
\* its own label; get_fn was called num_batches times; the file is written
\* once, and not before the loop is over.
ExportRecords ==
    \A s \in Splits :
        /\ ExportPath(s) \in DOMAIN files =>
                /\ files[ExportPath(s)] = Owed(fetched[s])
                /\ Len(files[ExportPath(s)]) = SumLen(fetched[s])
                /\ Count(write_log, ExportPath(s)) = 1
                /\ exp.name = s => Len(fetched[s]) = exp.num_batches
        /\ (pc = "save_after_ggnn" /\ exp.name = s) =>
                /\ ExportPath(s) \notin DOMAIN files
                /\ Len(fetched[s]) = exp.l
                /\ exp.l <= exp.num_batches

ExportRecordsWitness ==
    /\ ExportPath("train") \in DOMAIN files
    /\ Len(fetched["train"]) = 2
    /\ Len(files[ExportPath("train")]) = 3
    /\ files[ExportPath("train")][3].target = 1

\* C7: the dataset in use is the one built from the JSON files, and
\* processed.bin holds that dataset, whether or not the file existed before.
PickleNeverLoaded ==
    dataset.built =>
        /\ dataset = DataSet(json_src, argv.batch_size)
        /\ files[ProcessedPath] = DataSet(json_src, argv.batch_size)
        /\ Count(write_log, ProcessedPath) = 1

PickleNeverLoadedWitness ==
    /\ processed_at_start
    /\ pc = "train"
    /\ dataset # StaleDataset
    /\ files[ProcessedPath] = dataset

\* C8: the export never ends in DeviceMismatch; at each of its forward passes
\* graph, targets and parameters are on the accelerator when CUDA is enabled
\* and on the host when it is not.
NoDeviceMismatch ==
    /\ pc # "DeviceMismatch"
    /\ placement # NoPlacement =>
            /\ placement.graph = Device
            /\ placement.targets = Device
            /\ placement.params = Device
            /\ placement.cuda = CUDA

NoDeviceMismatchWitness ==
    /\ CUDA
    /\ pc = "done"
    /\ placement.graph = "cuda:0"
    /\ placement.params = "cuda:0"

\* C9: past model construction exactly one model exists, GGNNSum iff
\* model_type is ggnn and DevignModel otherwise, with input_dim equal to the
\* dataset's and the arguments' feature size and output_dim the corrected
\* graph_embed_size, which is at least input_dim.
ModelConstructed ==
    /\ Len(models) <= 1
    /\ pc \in {"parsed", "load", "assert", "construct", "aborted"} => models = <<>>
    /\ pc \notin {"parsed", "load", "assert", "construct", "aborted"} =>
            /\ Len(models) = 1
            /\ models[1].class = "GGNNSum" <=> argv.model_type = "ggnn"
            /\ models[1].class = "DevignModel" <=> argv.model_type # "ggnn"
            /\ models[1].input_dim = dataset.feature_size
            /\ models[1].input_dim = argv.feature_size
            /\ models[1].output_dim = Max(argv.feature_size, argv.graph_embed_size)
            /\ models[1].output_dim >= models[1].input_dim

ModelConstructedWitness ==
    /\ Len(models) = 1
    /\ models[1].class = "GGNNSum"
    /\ argv.feature_size > argv.graph_embed_size
    /\ models[1].output_dim = models[1].input_dim

\* C10: export files are written only after training has halted and only with
\* the flag set, in the order test, valid, train, all three by the end of the
\* run; each split's iterator is initialised once, at the start of its export,
\* and the export consumes as many batches as that initialisation counted.
ExportAfterTraining ==
    /\ (ExportLog # <<>> \/ exp.call > 0) =>
            (train_state \in Halted /\ argv.save_after_ggnn)
    /\ Len(ExportLog) <= 3
    /\ ExportLog = SubSeq(ExportPlan, 1, Len(ExportLog))
    /\ pc = "done" => Len(ExportLog) = IF argv.save_after_ggnn THEN 3 ELSE 0
    /\ \A k \in 1..3 : inits[ExportOrder[k]] = IF exp.call >= k THEN 1 ELSE 0
    /\ exp.call > 0 =>
            /\ exp.name = ExportOrder[exp.call]
            /\ exp.num_batches = Len(dataset.batches[exp.name])
            /\ Len(ExportLog) = IF pc = "save_after_ggnn" THEN exp.call - 1 ELSE exp.call
    /\ (pc = "save_after_ggnn" /\ exp.l = 0) => batch_iter[exp.name].pos = 0
    /\ pc \in {"export", "done"} /\ exp.call > 0 =>
            Len(fetched[exp.name]) = exp.num_batches

ExportAfterTrainingWitness ==
    /\ pc = "done"
    /\ ExportLog = ExportPlan
    /\ step_count % 2 = 1
    /\ Len(dataset.batches["train"]) = 2

====
